---- MODULE Spec2Model ----
(***************************************************************************)
(* Model of frontend/src/hooks/useSubscriptions.ts: the feature-gating     *)
(* queries, the subscription stubs and the Stripe checkout mutation.       *)
(*                                                                         *)
(* Text (a JS string) is a sequence of one-character strings.  A query is  *)
(* a cache entry keyed by its queryKey; a mutation invocation is a record  *)
(* that is pending between the remote call and its settlement.             *)
(***************************************************************************)
EXTENDS Integers, Sequences, FiniteSets, TLC

(* ------------------------------ bounds -------------------------------- *)

\* longest CheckoutSession id the backend answers with
MaxStrLen == 2
\* checkout invocations in SpecCheckout
MaxInvocations == 2
\* feature-access hook calls in SpecFeature
MaxCalls == 2
\* the clock stops here (milliseconds)
MaxClock == 60000
\* checkout invocations and hook calls when every operation is interleaved
MaxOps == 1

(* ------------------------------- text --------------------------------- *)

RECURSIVE Concat(_)
Concat(ss) == IF ss = <<>> THEN <<>> ELSE Head(ss) \o Concat(Tail(ss))

RECURSIVE StringsUpTo(_, _)
StringsUpTo(cs, n) ==
  IF n = 0 THEN {<<>>}
  ELSE LET shorter == StringsUpTo(cs, n - 1)
       IN shorter \cup {Append(s, c) : s \in shorter, c \in cs}

(* ------------------------- JSON values -------------------------------- *)
\* A JS value as JSON.parse builds it.  Every value carries the same fields
\* so that any two can be compared.

JLit(k)        == [kind |-> k, chars |-> <<>>, members |-> <<>>, elems |-> <<>>]
JNull          == JLit("null")
JUndefined     == JLit("undefined")
JString(s)     == [kind |-> "string", chars |-> s, members |-> <<>>, elems |-> <<>>]
JNumber(lex)   == [kind |-> "number", chars |-> lex, members |-> <<>>, elems |-> <<>>]
JObject(ms)    == [kind |-> "object", chars |-> <<>>, members |-> ms, elems |-> <<>>]
JArray(es)     == [kind |-> "array", chars |-> <<>>, members |-> <<>>, elems |-> es]

\* obj[key] = val on an ordinary object: an existing key keeps its place.
SetProp(ms, key, val) ==
  IF \E i \in 1..Len(ms) : ms[i].key = key
  THEN [i \in 1..Len(ms) |-> IF ms[i].key = key THEN [key |-> key, val |-> val] ELSE ms[i]]
  ELSE Append(ms, [key |-> key, val |-> val])

\* v.key as JS reads it from a parsed value
Prop(v, key) ==
  IF v.kind = "object" /\ \E i \in 1..Len(v.members) : v.members[i].key = key
  THEN LET i == CHOOSE i \in 1..Len(v.members) : v.members[i].key = key
       IN v.members[i].val
  ELSE JUndefined

Keys(v) == {v.members[i].key : i \in 1..Len(v.members)}

(* --------------------------- JSON.parse ------------------------------- *)

Digits    == {"0", "1", "2", "3", "4", "5", "6", "7", "8", "9"}
HexDigits == Digits \cup {"a", "b", "c", "d", "e", "f", "A", "B", "C", "D", "E", "F"}
WhiteSpace == {" ", "\t", "\n", "\r"}
\* U+0000..U+001F may not appear raw inside a JSON string
ControlChars == {"\t", "\n", "\r", "<FF>", "<BS>"}

\* the character a four-digit \u escape denotes; code points outside the
\* model's alphabet are one abstract character
CodePoint(h) ==
  CASE h = <<"0", "0", "2", "2">> -> "\""
    [] h \in {<<"0", "0", "5", "c">>, <<"0", "0", "5", "C">>} -> "\\"
    [] h = <<"0", "0", "6", "1">> -> "a"
    [] h = <<"0", "0", "2", "f">> \/ h = <<"0", "0", "2", "F">> -> "/"
    [] h \in {<<"0", "0", "0", "a">>, <<"0", "0", "0", "A">>} -> "\n"
    [] OTHER -> "U+other"

SimpleEscapes == {"\"", "\\", "/", "b", "f", "n", "r", "t"}
Unescape(e) ==
  CASE e = "b" -> "<BS>" [] e = "f" -> "<FF>" [] e = "n" -> "\n"
    [] e = "r" -> "\r" [] e = "t" -> "\t" [] OTHER -> e

At(t, p) == IF p \in 1..Len(t) THEN t[p] ELSE "EOF"

PFail == [ok |-> FALSE, val |-> JNull, pos |-> 0]
POk(v, p) == [ok |-> TRUE, val |-> v, pos |-> p]

RECURSIVE SkipWs(_, _)
SkipWs(t, p) == IF At(t, p) \in WhiteSpace THEN SkipWs(t, p + 1) ELSE p

\* the characters of a string literal whose opening quote is before p
RECURSIVE ParseChars(_, _, _)
ParseChars(t, p, acc) ==
  LET c == At(t, p) IN
  CASE c = "EOF" -> PFail
    [] c = "\"" -> POk(JString(acc), p + 1)
    [] c \in ControlChars -> PFail
    [] c = "\\" ->
         LET e == At(t, p + 1) IN
         IF e \in SimpleEscapes THEN ParseChars(t, p + 2, Append(acc, Unescape(e)))
         ELSE IF e = "u" /\ \A k \in 2..5 : At(t, p + k) \in HexDigits
              THEN ParseChars(t, p + 6, Append(acc, CodePoint(SubSeq(t, p + 2, p + 5))))
              ELSE PFail
    [] OTHER -> ParseChars(t, p + 1, Append(acc, c))

RECURSIVE SkipDigits(_, _)
SkipDigits(t, p) == IF At(t, p) \in Digits THEN SkipDigits(t, p + 1) ELSE p

\* -? (0 | [1-9][0-9]*) (. [0-9]+)? ([eE] [+-]? [0-9]+)?
ParseNumber(t, p) ==
  LET i0 == IF At(t, p) = "-" THEN p + 1 ELSE p
      i1 == IF At(t, i0) = "0" THEN i0 + 1 ELSE SkipDigits(t, i0)
      f0 == IF At(t, i1) = "." THEN SkipDigits(t, i1 + 1) ELSE i1
      fracOk == At(t, i1) # "." \/ f0 > i1 + 1
      s0 == IF At(t, f0) \in {"e", "E"}
            THEN (IF At(t, f0 + 1) \in {"+", "-"} THEN f0 + 2 ELSE f0 + 1)
            ELSE f0
      e0 == IF At(t, f0) \in {"e", "E"} THEN SkipDigits(t, s0) ELSE f0
      expOk == At(t, f0) \notin {"e", "E"} \/ e0 > s0
  IN IF i1 > i0 /\ fracOk /\ expOk
     THEN POk(JNumber(SubSeq(t, p, e0 - 1)), e0)
     ELSE PFail

ParseLiteral(t, p, word, k) ==
  IF p + Len(word) - 1 <= Len(t) /\ SubSeq(t, p, p + Len(word) - 1) = word
  THEN POk(JLit(k), p + Len(word))
  ELSE PFail

RECURSIVE ParseValue(_, _)
RECURSIVE ParseMembers(_, _, _)
RECURSIVE ParseElements(_, _, _)

\* a value starting at p (leading white space allowed)
ParseValue(t, p0) ==
  LET p == SkipWs(t, p0)
      c == At(t, p)
  IN CASE c = "{" ->
            IF At(t, SkipWs(t, p + 1)) = "}"
            THEN POk(JObject(<<>>), SkipWs(t, p + 1) + 1)
            ELSE ParseMembers(t, p + 1, <<>>)
       [] c = "[" ->
            IF At(t, SkipWs(t, p + 1)) = "]"
            THEN POk(JArray(<<>>), SkipWs(t, p + 1) + 1)
            ELSE ParseElements(t, p + 1, <<>>)
       [] c = "\"" -> ParseChars(t, p + 1, <<>>)
       [] c = "-" \/ c \in Digits -> ParseNumber(t, p)
       [] c = "t" -> ParseLiteral(t, p, <<"t", "r", "u", "e">>, "true")
       [] c = "f" -> ParseLiteral(t, p, <<"f", "a", "l", "s", "e">>, "false")
       [] c = "n" -> ParseLiteral(t, p, <<"n", "u", "l", "l">>, "null")
       [] OTHER -> PFail

\* "key" : value ( , "key" : value )* }
ParseMembers(t, p0, acc) ==
  LET p == SkipWs(t, p0) IN
  IF At(t, p) # "\"" THEN PFail
  ELSE LET k == ParseChars(t, p + 1, <<>>) IN
       IF ~k.ok \/ At(t, SkipWs(t, k.pos)) # ":" THEN PFail
       ELSE LET v == ParseValue(t, SkipWs(t, k.pos) + 1) IN
            IF ~v.ok THEN PFail
            ELSE LET q == SkipWs(t, v.pos)
                     ms == SetProp(acc, k.val.chars, v.val)
                 IN CASE At(t, q) = "}" -> POk(JObject(ms), q + 1)
                      [] At(t, q) = "," -> ParseMembers(t, q + 1, ms)
                      [] OTHER -> PFail

\* value ( , value )* ]
ParseElements(t, p0, acc) ==
  LET v == ParseValue(t, p0) IN
  IF ~v.ok THEN PFail
  ELSE LET q == SkipWs(t, v.pos) IN
       CASE At(t, q) = "]" -> POk(JArray(Append(acc, v.val)), q + 1)
         [] At(t, q) = "," -> ParseElements(t, q + 1, Append(acc, v.val))
         [] OTHER -> PFail

\* JSON.parse(text): the value, or a thrown SyntaxError
JsonParse(t) ==
  LET r == ParseValue(t, 1) IN
  IF r.ok /\ SkipWs(t, r.pos) = Len(t) + 1
  THEN [threw |-> FALSE, val |-> r.val]
  ELSE [threw |-> TRUE, val |-> JUndefined]

(* ------------------- the backend's answer (collaborator) -------------- *)

QuoteChar(c) ==
  CASE c = "\"" -> <<"\\", "\"">>
    [] c = "\\" -> <<"\\", "\\">>
    [] c = "\n" -> <<"\\", "n">>
    [] OTHER -> <<c>>

\* a JSON string literal for s
Quote(s) == <<"\"">> \o Concat([i \in 1..Len(s) |-> QuoteChar(s[i])]) \o <<"\"">>

IdKey  == <<"i", "d">>
UrlKey == <<"u", "r", "l">>

\* JSON.stringify({id, url})
EncodeCheckoutSession(r) ==
  <<"{">> \o Quote(IdKey) \o <<":">> \o Quote(r.id) \o <<",">>
          \o Quote(UrlKey) \o <<":">> \o Quote(r.url) \o <<"}">>

\* the same record written with white space and the keys the other way round
EncodeSpaced(r) ==
  <<"{", " ">> \o Quote(UrlKey) \o <<":", " ">> \o Quote(r.url) \o <<",", "\n">>
               \o Quote(IdKey) \o <<" ", ":">> \o Quote(r.id) \o <<" ", "}">>

IdChars == {"a", "\"", "\\", "\n"}
Sessions == [id : StringsUpTo(IdChars, MaxStrLen), url : StringsUpTo(IdChars, 1)]
Encodings == {EncodeCheckoutSession(r) : r \in Sessions} \cup {EncodeSpaced(r) : r \in Sessions}

ExampleSession == [id |-> <<"c", "s", "_", "1">>, url |-> <<"h", "t", "t", "p", "s", ":", "/", "/", "p", "/", "1">>]
ExampleText == EncodeCheckoutSession(ExampleSession)
NotJson == <<"n", "o", "t", " ", "j", "s", "o", "n">>

\* answers that are not the encoding of a CheckoutSession
OtherTexts ==
  {SubSeq(e, 1, Len(e) - 1) : e \in Encodings}
    \cup {SubSeq(ExampleText, 1, n) : n \in 0..(Len(ExampleText) - 1)}
    \cup { NotJson,
           <<"4", "2">>, <<"n", "u", "l", "l">>, <<"t", "r", "u", "e">>,
           <<"\"", "a", "\"">>, <<"{", "}">>, <<"[", "]">>,
           <<"[", "{", "}", ",", "1", "]">>,
           <<"{", "\"", "i", "d", "\"", ":", "1", ",", "\"", "u", "r", "l", "\"", ":", "\"", "a", "\"", "}">>,
           <<"{", "\"", "i", "d", "\"", ":", "\"", "a", "\"", "}">>,
           <<"{", "\"", "i", "d", "\"", ":", "\"", "a", "\"", ",", "}">>,
           <<"{", "\"", "i", "d", "\"", ":", "\"", "\\", "u", "0", "0", "6", "1", "\"", ",",
             "\"", "u", "r", "l", "\"", ":", "\"", "\\", "/", "\"", "}">>,
           <<"{", "\"", "i", "d", "\"", ":", "\"", "\\", "x", "\"", "}">>,
           ExampleText \o <<"x">>, <<" ">> \o ExampleText \o <<"\n">> }

Responses == Encodings \cup OtherTexts \cup {ExampleText}
SmallResponses == {ExampleText, NotJson, <<"4", "2">>}

(* ------------------------------ errors -------------------------------- *)

NoError          == [name |-> "", message |-> ""]
ActorUnavailable == [name |-> "Error", message |-> "Actor not available"]
SyntaxError      == [name |-> "SyntaxError", message |-> "JSON.parse"]
NetworkError     == [name |-> "Error", message |-> "network"]
RemoteErrors     == { NetworkError,
                      [name |-> "RejectError", message |-> "canister trapped"] }

(* ------------------------------- state -------------------------------- *)

NoActor   == "null"
LiveActor == "actor"

Http  == <<"h", "t", "t", "p", ":">>
Https == <<"h", "t", "t", "p", "s", ":">>
Locations == { [protocol |-> Https, host |-> <<"a", ".", "i", "o">>],
               [protocol |-> Http, host |-> <<"l", "h", ":", "3">>] }
InitLocation == [protocol |-> Https, host |-> <<"a", ".", "i", "o">>]

ItemLists == { <<>>,
               <<[priceId |-> "price_pro", quantity |-> 1]>>,
               <<[priceId |-> "price_pro", quantity |-> 2], [priceId |-> "price_plus", quantity |-> 1]>> }

Undefined == "undefined"
Scopes    == {"user", "club", "team"}
ScopeIds  == {"c1"}
FeatureNames == {"pro_features", "basic_chat"}

VARIABLES
  actor,        \* what useActor() gave the hook at its last render
  location,     \* window.location
  calls,        \* the remote createCheckoutSession calls issued, in order
  invocations,  \* the checkout mutation's invocations, in order
  now,          \* Date.now()
  cache,        \* the query cache: queryKey -> entry
  last,         \* what the most recent query hook call was given and returned
  hookCalls,    \* query hook calls so far
  upgrade,      \* state of the upgrade-to-Pro mutation
  cancel        \* state of the cancel-Pro mutation

vars == <<actor, location, calls, invocations, now, cache, last, hookCalls, upgrade, cancel>>
checkoutVars == <<actor, location, calls, invocations>>
queryVars == <<now, cache, last, hookCalls>>
stubVars == <<upgrade, cancel>>

(* --------------------------- checkout --------------------------------- *)

PaymentSuccess == <<"/", "p", "a", "y", "m", "e", "n", "t", "-", "s", "u", "c", "c", "e", "s", "s">>
PaymentFailure == <<"/", "p", "a", "y", "m", "e", "n", "t", "-", "f", "a", "i", "l", "u", "r", "e">>

\* the origin read once, when the page loaded
BaseUrlAtLoad(loc) == InitLocation.protocol \o <<"/", "/">> \o InitLocation.host

\* `${window.location.protocol}//${window.location.host}`
BaseUrl(loc) == loc.protocol \o <<"/", "/">> \o loc.host
SuccessUrl(loc) == BaseUrl(loc) \o PaymentSuccess
CancelUrl(loc) == BaseUrl(loc) \o PaymentFailure

\* the guard left out
ActorNeverMissing(a) == FALSE

\* !actor
ActorMissing(a) == a = NoActor

\* an identical call already issued is shared
IssueCallShared(cs, c) ==
  IF \E j \in 1..Len(cs) : cs[j] = c THEN cs ELSE Append(cs, c)

\* actor.createCheckoutSession(items, successUrl, cancelUrl) goes out
IssueCall(cs, c) == Append(cs, c)

NoRemote == [kind |-> "none", text |-> <<>>, error |-> NoError]
Awaiting == [kind |-> "awaiting", text |-> <<>>, error |-> NoError]

Settled(inv, status, data, error) ==
  [inv EXCEPT !.status = status, !.data = data, !.error = error]

\* the failure wrapped in an error of the hook's own
RemoteFailureWrapped(inv, e) ==
  Settled(inv, "error", JUndefined, [name |-> "Error", message |-> "Checkout failed"])

\* the awaited call threw: the mutation function throws the same value
RemoteFailure(inv, e) == Settled(inv, "error", JUndefined, e)

\* the answer returned as it came, not parsed
CheckoutResultUnparsed(inv, text) == Settled(inv, "success", JString(text), NoError)

\* return JSON.parse(result) as CheckoutSession
CheckoutResult(inv, text) ==
  LET r == JsonParse(text) IN
  IF r.threw THEN Settled(inv, "error", JUndefined, SyntaxError)
  ELSE Settled(inv, "success", r.val, NoError)

\* mutate(items): the mutation function runs up to its await
Mutate(items) ==
  LET inv == [items |-> items, actor |-> actor, origin |-> location, call |-> 0,
              remote |-> NoRemote, status |-> "pending", data |-> JUndefined,
              error |-> NoError]
  IN /\ IF ActorMissing(actor)
        THEN /\ invocations' = Append(invocations, Settled(inv, "error", JUndefined, ActorUnavailable))
             /\ calls' = calls
        ELSE /\ calls' = IssueCall(calls, [items |-> items,
                                           successUrl |-> SuccessUrl(location),
                                           cancelUrl |-> CancelUrl(location)])
             /\ invocations' = Append(invocations,
                                      [inv EXCEPT !.call = Len(calls'), !.remote = Awaiting])
     /\ UNCHANGED <<actor, location, queryVars, stubVars>>

\* the remote call of invocation i resolves with text
RemoteResolves(i, text) ==
  /\ invocations[i].remote.kind = "awaiting"
  /\ invocations' = [invocations EXCEPT ![i] =
       CheckoutResult([@ EXCEPT !.remote = [kind |-> "resolved", text |-> text, error |-> NoError]], text)]
  /\ UNCHANGED <<actor, location, calls, queryVars, stubVars>>

\* the remote call of invocation i fails with e
RemoteRejects(i, e) ==
  /\ invocations[i].remote.kind = "awaiting"
  /\ invocations' = [invocations EXCEPT ![i] =
       RemoteFailure([@ EXCEPT !.remote = [kind |-> "failed", text |-> <<>>, error |-> e]], e)]
  /\ UNCHANGED <<actor, location, calls, queryVars, stubVars>>

\* useActor() gives the hook another value and the hook renders again
ActorChanges ==
  /\ actor' = IF actor = NoActor THEN LiveActor ELSE NoActor
  /\ UNCHANGED <<location, calls, invocations, queryVars, stubVars>>

\* the page's origin changes
Navigate(loc) ==
  /\ loc # location
  /\ location' = loc
  /\ UNCHANGED <<actor, calls, invocations, queryVars, stubVars>>

(* ------------------------- the query cache ---------------------------- *)

\* staleTime: 60_000
StaleTime == 60000

\* no freshness window
AlwaysStale(entry, t) == TRUE

\* a cached result is stale once staleTime has passed since it was produced
IsStale(entry, t) == t - entry.updatedAt >= StaleTime

\* whether useQuery runs the queryFn: a component that mounts fetches when the
\* key has no entry or a stale one; a component already mounted renders again
\* with what the cache holds
Fetches(key, mounting) ==
  key \notin DOMAIN cache \/ (mounting /\ IsStale(cache[key], now))

\* useQuery({queryKey, queryFn, staleTime}) called by a component; result is
\* what the queryFn gives if it runs
UseQuery(key, result, mounting) ==
  /\ key \in DOMAIN cache \/ mounting
  /\ LET runs == IF key \in DOMAIN cache THEN cache[key].fetches ELSE 0
         entry == [status |-> IF result.threw THEN "error" ELSE "success",
                   data |-> result.data, updatedAt |-> now, fetches |-> runs + 1]
     IN cache' = IF Fetches(key, mounting)
                 THEN [k \in DOMAIN cache \cup {key} |-> IF k = key THEN entry ELSE cache[k]]
                 ELSE cache

(* -------------------------- feature access ---------------------------- *)

\* new Set<string>([ /* e.g., 'basic_chat' */ ])
FreeAllowed == {}

\* access decided by the scope
FeatureAccessByScope(feature, scope, scopeId) ==
  IF scope = "user"
  THEN [threw |-> FALSE, data |-> [hasAccess |-> TRUE, plan |-> "Free"]]
  ELSE [threw |-> FALSE, data |-> [hasAccess |-> FALSE, plan |-> "Free", reason |-> "stubbed"]]

\* the queryFn of useCanAccessFeature
FeatureAccessQueryFn(feature, scope, scopeId) ==
  IF feature \in FreeAllowed
  THEN [threw |-> FALSE, data |-> [hasAccess |-> TRUE, plan |-> "Free"]]
  ELSE [threw |-> FALSE, data |-> [hasAccess |-> FALSE, plan |-> "Free", reason |-> "stubbed"]]

\* queryKey: ['feature-access', feature, scope, scopeId]
FeatureKey(feature, scope, scopeId) == <<"feature-access", feature, scope, scopeId>>

\* a parameter default applies when the argument is undefined
DefaultTo(v, d) == IF v = Undefined THEN d ELSE v

\* The hooks, as the parameters the feature-access query is made with.
UseCanAccessFeature(feature, scope, scopeId) ==
  [feature |-> feature, scope |-> DefaultTo(scope, "user"), scopeId |-> scopeId]
UseCanAccessProFeatures(scope, scopeId) ==
  UseCanAccessFeature("pro_features", "user", Undefined)
UseCanAccessAdvancedChat(scope, scopeId) ==
  UseCanAccessFeature("advanced_chat", DefaultTo(scope, "club"), scopeId)
UseCanAccessSocialFeedNoId(scope, scopeId) ==
  UseCanAccessFeature("social_feed", DefaultTo(scope, "club"), Undefined)
UseCanAccessSocialFeed(scope, scopeId) ==
  UseCanAccessFeature("social_feed", DefaultTo(scope, "club"), scopeId)
UseCanCreateUnlimitedAnnouncements(scope, scopeId) ==
  UseCanAccessFeature("unlimited_announcements", DefaultTo(scope, "club"), scopeId)

Wrappers == {"useCanAccessProFeatures", "useCanAccessAdvancedChat",
             "useCanAccessSocialFeed", "useCanCreateUnlimitedAnnouncements"}
HookQuery(hook, feature, scope, scopeId) ==
  CASE hook = "useCanAccessFeature" -> UseCanAccessFeature(feature, scope, scopeId)
    [] hook = "useCanAccessProFeatures" -> UseCanAccessProFeatures(scope, scopeId)
    [] hook = "useCanAccessAdvancedChat" -> UseCanAccessAdvancedChat(scope, scopeId)
    [] hook = "useCanAccessSocialFeed" -> UseCanAccessSocialFeed(scope, scopeId)
    [] hook = "useCanCreateUnlimitedAnnouncements" -> UseCanCreateUnlimitedAnnouncements(scope, scopeId)

\* a component calls one of the feature hooks with (feature,) scope and scopeId
CallFeatureHook(hook, feature, scope, scopeId, mounting) ==
  LET q == HookQuery(hook, feature, scope, scopeId)
      key == FeatureKey(q.feature, q.scope, q.scopeId)
  IN /\ UseQuery(key, FeatureAccessQueryFn(q.feature, q.scope, q.scopeId), mounting)
     /\ last' = [hook |-> hook, feature |-> feature, scope |-> scope, scopeId |-> scopeId,
                 key |-> key, at |-> now, status |-> cache'[key].status,
                 data |-> cache'[key].data]
     /\ hookCalls' = hookCalls + 1
     /\ UNCHANGED <<now, checkoutVars, stubVars>>

\* time passes
Tick(d) ==
  /\ now + d <= MaxClock
  /\ now' = now + d
  /\ UNCHANGED <<cache, last, hookCalls, checkoutVars, stubVars>>

(* ----------------------- subscription stubs --------------------------- *)

SubscriptionStatusQueryFn == [threw |-> FALSE, data |-> [plan |-> "Free", status |-> "none"]]
HasProAccessQueryFn       == [threw |-> FALSE, data |-> FALSE]
AllSubscriptionsQueryFn   == [threw |-> FALSE, data |-> <<>>]

UseGetSubscriptionStatus(mounting) ==
  /\ UseQuery(<<"subscription-status">>, SubscriptionStatusQueryFn, mounting)
  /\ UNCHANGED <<now, last, hookCalls, checkoutVars, stubVars>>

UseHasProAccess(mounting) ==
  /\ UseQuery(<<"has-pro-access">>, HasProAccessQueryFn, mounting)
  /\ UNCHANGED <<now, last, hookCalls, checkoutVars, stubVars>>

UseGetAllSubscriptions(mounting) ==
  /\ UseQuery(<<"all-subscriptions">>, AllSubscriptionsQueryFn, mounting)
  /\ UNCHANGED <<now, last, hookCalls, checkoutVars, stubVars>>

\* an upgrade that succeeds once a payment method is given
UpgradeWithPaymentMethod(opts) ==
  [threw |-> FALSE, data |-> [success |-> opts = "{paymentMethodId: pm_1}"]]

\* async (_opts?: { paymentMethodId?: string }) => ({ success: false })
UpgradeMutationFn(opts) == [threw |-> FALSE, data |-> [success |-> FALSE]]
\* async () => ({ success: false })
CancelMutationFn == [threw |-> FALSE, data |-> [success |-> FALSE]]

\* the mutation's observable state: idle until first invoked
Idle == [status |-> "idle", data |-> [success |-> FALSE], variables |-> Undefined]
MutationState(result, variables) ==
  [status |-> IF result.threw THEN "error" ELSE "success", data |-> result.data,
   variables |-> variables]

UpgradeOpts == {Undefined, "{}", "{paymentMethodId: pm_1}"}

UseUpgradeToProPlan(opts) ==
  /\ upgrade' = MutationState(UpgradeMutationFn(opts), opts)
  /\ UNCHANGED <<cancel, checkoutVars, queryVars>>

UseCancelProSubscription ==
  /\ cancel' = MutationState(CancelMutationFn, Undefined)
  /\ UNCHANGED <<upgrade, checkoutVars, queryVars>>

(* -------------------------- specifications ---------------------------- *)

NoCall == [hook |-> "none", feature |-> "", scope |-> Undefined, scopeId |-> Undefined,
           key |-> <<>>, at |-> 0, status |-> "idle", data |-> [hasAccess |-> FALSE]]

Init ==
  /\ actor \in {NoActor, LiveActor}
  /\ location = InitLocation
  /\ calls = <<>>
  /\ invocations = <<>>
  /\ now = 0
  /\ cache = <<>>
  /\ last = NoCall
  /\ hookCalls = 0
  /\ upgrade = Idle
  /\ cancel = Idle

TickSteps == {30000, 59999}

\* the checkout mutation with its collaborators
CheckoutNext ==
  \/ \E items \in ItemLists : Len(invocations) < MaxInvocations /\ Mutate(items)
  \/ \E i \in 1..Len(invocations), text \in SmallResponses : RemoteResolves(i, text)
  \/ \E i \in 1..Len(invocations), e \in RemoteErrors : RemoteRejects(i, e)
  \/ ActorChanges
  \/ \E loc \in Locations : Navigate(loc)

SpecCheckout == Init /\ [][CheckoutNext]_vars

\* one checkout invocation, every answer of the backend
DecodeNext ==
  \/ invocations = <<>> /\ Mutate(<<>>)
  \/ \E text \in Responses : Len(invocations) = 1 /\ RemoteResolves(1, text)
  \/ \E e \in RemoteErrors : Len(invocations) = 1 /\ RemoteRejects(1, e)
  \/ ActorChanges

SpecDecode == Init /\ [][DecodeNext]_vars

\* the feature-access hook and the clock
FeatureNext ==
  \/ \E feature \in FeatureNames, scope \in Scopes \cup {Undefined},
        scopeId \in ScopeIds \cup {Undefined}, mounting \in BOOLEAN :
       hookCalls < MaxCalls
         /\ CallFeatureHook("useCanAccessFeature", feature, scope, scopeId, mounting)
  \/ \E d \in TickSteps : Tick(d)
  \/ ActorChanges

SpecFeature == Init /\ [][FeatureNext]_vars

\* the four convenience hooks, called with any scope and scopeId
WrapperNext ==
  \/ \E hook \in Wrappers, scope \in Scopes \cup {Undefined},
        scopeId \in ScopeIds \cup {Undefined}, mounting \in BOOLEAN :
       hookCalls < MaxCalls /\ CallFeatureHook(hook, "", scope, scopeId, mounting)
  \/ Tick(StaleTime)

SpecWrappers == Init /\ [][WrapperNext]_vars

\* every operation of the file, interleaved
StubNext ==
  \/ \E mounting \in BOOLEAN : UseGetSubscriptionStatus(mounting)
  \/ \E mounting \in BOOLEAN : UseHasProAccess(mounting)
  \/ \E mounting \in BOOLEAN : UseGetAllSubscriptions(mounting)
  \/ \E opts \in UpgradeOpts : UseUpgradeToProPlan(opts)
  \/ UseCancelProSubscription

Next ==
  \/ Len(invocations) + hookCalls < MaxOps /\ Mutate(<<>>)
  \/ \E i \in 1..Len(invocations), text \in {ExampleText, NotJson} : RemoteResolves(i, text)
  \/ \E i \in 1..Len(invocations) : RemoteRejects(i, NetworkError)
  \/ ActorChanges
  \/ \E scopeId \in ScopeIds \cup {Undefined}, mounting \in BOOLEAN :
       Len(invocations) + hookCalls < MaxOps
         /\ CallFeatureHook("useCanAccessAdvancedChat", "", Undefined, scopeId, mounting)
  \/ Tick(StaleTime)
  \/ StubNext

Spec == Init /\ [][Next]_vars

(* ------------------------------ claims -------------------------------- *)

LiveInvocations == {i \in 1..Len(invocations) : invocations[i].actor = LiveActor}
LastInvocation(invs) == invs[Len(invs)]

\* C1: an invocation made while there is no actor is rejected with the
\* actor-unavailable error and issues no remote call, whatever its items:
\* the step that makes it leaves the remote calls as they were, and it never
\* gets a call afterwards.
C1_NoActorNoCall ==
  /\ [](\A i \in 1..Len(invocations) :
          invocations[i].actor = NoActor =>
            /\ invocations[i].status = "error"
            /\ invocations[i].error = ActorUnavailable
            /\ invocations[i].call = 0
            /\ invocations[i].remote.kind = "none")
  /\ [][(Len(invocations') = Len(invocations) + 1 /\ actor = NoActor) =>
          /\ calls' = calls
          /\ LastInvocation(invocations').status = "error"
          /\ LastInvocation(invocations').error = ActorUnavailable]_vars

C1_Witness ==
  /\ Len(invocations) = 2
  /\ invocations[1].actor = LiveActor
  /\ invocations[2].actor = NoActor
  /\ invocations[2].items # <<>>
  /\ invocations[2].status = "error"
  /\ Len(calls) = 1

\* C2: the remote calls are exactly one per invocation made with a live
\* actor: as many calls as such invocations, each invocation with a call of
\* its own carrying its items, also when two invocations overlap with the
\* same items and after a call has failed.
C2_OneCallPerInvocation ==
  /\ Len(calls) = Cardinality(LiveInvocations)
  /\ \A i \in LiveInvocations :
       /\ invocations[i].call \in 1..Len(calls)
       /\ calls[invocations[i].call].items = invocations[i].items
  /\ \A i, j \in LiveInvocations : i # j => invocations[i].call # invocations[j].call

C2_Witness ==
  /\ Len(invocations) = 2
  /\ invocations[1].remote.kind = "failed"
  /\ invocations[2].remote.kind = "awaiting"
  /\ invocations[1].items = invocations[2].items
  /\ invocations[1].origin = invocations[2].origin
  /\ Len(calls) = 2

\* a record with a string id and a string url
IsCheckoutSession(v) ==
  /\ v.kind = "object"
  /\ Prop(v, IdKey).kind = "string"
  /\ Prop(v, UrlKey).kind = "string"

\* C3: a checkout invocation never resolves with a value that is not a
\* CheckoutSession record: an answer that is not such a record is rejected.
C3_OnlySessionsResolve ==
  \A i \in 1..Len(invocations) :
    invocations[i].status = "success" => IsCheckoutSession(invocations[i].data)

\* C4: when the remote call resolves with the JSON encoding of a record
\* {id, url}, compact or spaced, the invocation resolves to a record with
\* exactly that id and that url.
C4_DecodeOfEncode ==
  \A i \in 1..Len(invocations) :
    \A r \in Sessions \cup {ExampleSession} :
      (/\ invocations[i].remote.kind = "resolved"
       /\ invocations[i].remote.text \in {EncodeCheckoutSession(r), EncodeSpaced(r)}) =>
        /\ invocations[i].status = "success"
        /\ Keys(invocations[i].data) = {IdKey, UrlKey}
        /\ Prop(invocations[i].data, IdKey) = JString(r.id)
        /\ Prop(invocations[i].data, UrlKey) = JString(r.url)

C4_Witness ==
  /\ Len(invocations) = 1
  /\ invocations[1].remote.kind = "resolved"
  /\ invocations[1].remote.text =
       EncodeCheckoutSession([id |-> <<"\"", "\\">>, url |-> <<"\n">>])
  /\ invocations[1].status = "success"
  /\ Prop(invocations[1].data, IdKey).chars = <<"\"", "\\">>

\* C5: when the remote call fails, the invocation is rejected with the very
\* error the call failed with, after its one remote call; it is never a
\* success and never another error.
C5_RemoteFailurePropagates ==
  \A i \in 1..Len(invocations) :
    invocations[i].remote.kind = "failed" =>
      /\ invocations[i].status = "error"
      /\ invocations[i].error = invocations[i].remote.error
      /\ invocations[i].data = JUndefined
      /\ Cardinality({c \in 1..Len(calls) : c = invocations[i].call}) = 1
      /\ Len(calls) = Cardinality(LiveInvocations)

C5_Witness ==
  \E i \in 1..Len(invocations) :
    /\ invocations[i].remote.kind = "failed"
    /\ invocations[i].error = [name |-> "RejectError", message |-> "canister trapped"]
    /\ Len(calls) = 2

\* C6: every remote call carries the items of its invocation, successUrl =
\* <origin>/payment-success and cancelUrl = <origin>/payment-failure, where
\* <origin> is protocol//host as they were when that invocation was made.
C6_UrlsFromOriginAtCall ==
  /\ \A c \in 1..Len(calls) : \E i \in LiveInvocations : invocations[i].call = c
  /\ \A i \in LiveInvocations :
       LET c == calls[invocations[i].call]
           o == invocations[i].origin
       IN /\ c.items = invocations[i].items
          /\ c.successUrl = o.protocol \o <<"/", "/">> \o o.host \o PaymentSuccess
          /\ c.cancelUrl = o.protocol \o <<"/", "/">> \o o.host \o PaymentFailure

C6_Witness ==
  /\ Len(calls) = 2
  /\ invocations[1].origin # InitLocation
  /\ invocations[2].origin = InitLocation
  /\ calls[1].successUrl # calls[2].successUrl
  /\ calls[1].cancelUrl # calls[2].cancelUrl
  /\ calls[1].items # <<>>

Granted == [hasAccess |-> TRUE, plan |-> "Free"]
Stubbed == [hasAccess |-> FALSE, plan |-> "Free", reason |-> "stubbed"]
ExpectedAccess(feature) == IF feature \in FreeAllowed THEN Granted ELSE Stubbed

\* C7: the feature-access check never fails and its result is decided by the
\* feature name alone: granted on the Free plan for a name of the allow-list,
\* refused with reason 'stubbed' otherwise, whatever the scope, the scopeId,
\* the actor and the calls made before.
C7_AccessByFeatureOnly ==
  /\ \A k \in DOMAIN cache :
       k[1] = "feature-access" =>
         /\ cache[k].status = "success"
         /\ cache[k].data = ExpectedAccess(k[2])
  /\ last.hook = "useCanAccessFeature" =>
       /\ last.status = "success"
       /\ last.data = ExpectedAccess(last.feature)

C7_Witness ==
  /\ hookCalls = 2
  /\ actor = LiveActor
  /\ last.scope = "user"
  /\ last.scopeId = "c1"
  /\ FeatureKey(last.feature, "team", Undefined) \in DOMAIN cache
  /\ last.data = Stubbed

\* C8: a feature-access call whose (feature, scope, scopeId) has a result
\* produced less than 60 seconds before returns that result and runs no
\* resolver; a call whose triple has no entry yet gets an entry of its own
\* and runs the resolver once, leaving the other entries alone.
C8_FreshHitNoRecompute ==
  [][hookCalls' = hookCalls + 1 =>
       LET k == <<"feature-access", last'.feature, DefaultTo(last'.scope, "user"), last'.scopeId>>
       IN /\ last'.key = k
          /\ (k \in DOMAIN cache /\ now - cache[k].updatedAt < 60000) =>
               /\ cache' = cache
               /\ last'.data = cache[k].data
          /\ k \notin DOMAIN cache =>
               /\ DOMAIN cache' = DOMAIN cache \cup {k}
               /\ cache'[k].fetches = 1
               /\ \A j \in DOMAIN cache : cache'[j] = cache[j]]_vars

C8_Witness ==
  /\ hookCalls = 2
  /\ last.at = 59999
  /\ DOMAIN cache = {last.key}
  /\ cache[last.key].updatedAt = 0
  /\ cache[last.key].fetches = 1

FixedFeature(hook) ==
  CASE hook = "useCanAccessProFeatures" -> "pro_features"
    [] hook = "useCanAccessAdvancedChat" -> "advanced_chat"
    [] hook = "useCanAccessSocialFeed" -> "social_feed"
    [] hook = "useCanCreateUnlimitedAnnouncements" -> "unlimited_announcements"
DefaultScope(hook) == IF hook = "useCanAccessProFeatures" THEN "user" ELSE "club"

\* C9 as stated: each of the four convenience checks is the base check with
\* its fixed feature and with the caller's scope (or its default) and scopeId.
C9_AllWrappersForward ==
  last.hook \in Wrappers =>
    /\ last.key = <<"feature-access", FixedFeature(last.hook),
                    DefaultTo(last.scope, DefaultScope(last.hook)), last.scopeId>>
    /\ last.data = ExpectedAccess(FixedFeature(last.hook))

\* C9 amended: the advanced-chat, social-feed and unlimited-announcements
\* checks are the base check with their fixed feature and the caller's scope
\* (default 'club') and scopeId; the pro-features check takes no parameters
\* and is the base check for ('pro_features', 'user', no scopeId) whatever
\* the caller passes.
C9_WrappersForwardButPro ==
  last.hook \in Wrappers =>
    /\ last.key = IF last.hook = "useCanAccessProFeatures"
                  THEN <<"feature-access", "pro_features", "user", Undefined>>
                  ELSE <<"feature-access", FixedFeature(last.hook),
                         DefaultTo(last.scope, "club"), last.scopeId>>
    /\ last.data = ExpectedAccess(FixedFeature(last.hook))
    /\ last.status = "success"

C9_Witness ==
  /\ last.hook = "useCanAccessSocialFeed"
  /\ last.scope = "team"
  /\ last.scopeId = "c1"
  /\ last.key \in DOMAIN cache
  /\ <<"feature-access", "pro_features", "user", Undefined>> \in DOMAIN cache

StubData(k) ==
  CASE k = <<"subscription-status">> -> [plan |-> "Free", status |-> "none"]
    [] k = <<"has-pro-access">> -> FALSE
    [] k = <<"all-subscriptions">> -> <<>>
StubKeys == {<<"subscription-status">>, <<"has-pro-access">>, <<"all-subscriptions">>}

\* C10: the upgrade and cancel mutations always resolve to {success: false}
\* and never fail; a step of either changes neither the remote calls, nor the
\* checkout invocations, nor any cached query result; the three subscription
\* reads hold {plan:'Free', status:'none'}, false and [] throughout.
C10_StubsInert ==
  /\ [](/\ upgrade.status \in {"idle", "success"}
        /\ cancel.status \in {"idle", "success"}
        /\ upgrade.data = [success |-> FALSE]
        /\ cancel.data = [success |-> FALSE]
        /\ \A k \in DOMAIN cache \cap StubKeys :
             cache[k].status = "success" /\ cache[k].data = StubData(k))
  /\ [][(upgrade' # upgrade \/ cancel' # cancel) =>
          /\ calls' = calls
          /\ invocations' = invocations
          /\ cache' = cache
          /\ actor' = actor]_vars

C10_Witness ==
  /\ upgrade.status = "success"
  /\ upgrade.variables = "{paymentMethodId: pm_1}"
  /\ cancel.status = "success"
  /\ Len(calls) = 1
  /\ StubKeys \subseteq DOMAIN cache
  /\ cache[<<"has-pro-access">>].fetches = 2
====
